---- MODULE Spec2Model ----
(***************************************************************************)
(* A model of the replicate client's Transport Core (replicate/client.py), *)
(* of the Collections namespace (replicate/collection.py) and of the       *)
(* Predictions namespace as the specification and tests/test_prediction.py *)
(* describe it.                                                            *)
(*                                                                         *)
(* The client owns two requests.Session objects whose HTTPAdapter carries  *)
(* a urllib3 Retry (the blocking path, Client._request) and one            *)
(* httpx.AsyncHTTPTransport (the non-blocking path, Client._request_async).*)
(* The retry loop of a blocking request runs inside session.request; it is *)
(* modelled one HTTP attempt at a time, the server's answer to each        *)
(* attempt being the input of the step.                                    *)
(*                                                                         *)
(* Strings of the program are strings here; a formatted message is the     *)
(* tuple of its parts; a URL is the pair <<base_url, path>>.               *)
(***************************************************************************)
EXTENDS Integers, Sequences, FiniteSets, TLC

VARIABLES
    environ,    \* os.environ: the three REPLICATE_* variables
    client,     \* the Client object's fields, or the fact that none exists
    ctor,       \* the most recent Client(...) call: its arguments and what it raised
    calls,      \* per calling convention, the logical call in progress or just ended
    server,     \* the API server's side of the prediction most recently created
    held,       \* the Prediction object the caller holds
    task,       \* the predictions operation in progress or just ended
    flights,    \* the _request_async coroutines of one client, by name
    pool        \* httpx_transport's connection pool: the flights holding a live connection

\* The state of the Job Lifecycle Engine and of concurrent non-blocking use.
lifecycle == <<server, held, task>>
concurrency == <<flights, pool>>

vars == <<environ, client, ctor, calls, lifecycle, concurrency>>

\* Python's None, and a keyword argument that the caller did not pass.
None == "<None>"
Omitted == "<omitted>"
\* The default value `...` of Collections.list's cursor parameter.
Ellipsis == "<...>"

Conventions == {"blocking", "nonblocking"}

Methods == {"GET", "HEAD", "OPTIONS", "POST", "PUT", "PATCH", "DELETE"}

-----------------------------------------------------------------------------
(* The server: what one HTTP attempt can be answered with.                 *)

\* The largest Retry-After (seconds) the modelled server sends.
MaxRetryAfter == 1

Statuses ==
    {200, 400, 404, 413, 429, 500, 502, 503, 504,
     520, 521, 522, 523, 524, 525, 526, 527}

\* The reason phrase of the status line, which the server chooses.
ReasonPhrase(status) ==
    CASE status = 200 -> "OK"
      [] status = 400 -> "Bad Request"
      [] status = 404 -> "Not Found"
      [] status = 413 -> "Payload Too Large"
      [] status = 429 -> "Too Many Requests"
      [] status = 500 -> "Internal Server Error"
      [] status = 502 -> "Bad Gateway"
      [] status = 503 -> "Service Unavailable"
      [] status = 504 -> "Gateway Timeout"
      [] OTHER -> ""

\* A body is text that is not JSON, a JSON value that is not an object (an
\* array, a string, a number, null), or a JSON object, given by its members.
\* "slug" stands for the required members of a Collection (slug, name,
\* description), which the API sends together.
Details == {"x"}

Bodies ==
    {[tag |-> "text", fields |-> {}], [tag |-> "nonobject", fields |-> {}],
     [tag |-> "object", fields |-> {}],
     [tag |-> "object", fields |-> {<<"results", "r">>}],
     [tag |-> "object", fields |-> {<<"slug", "s">>}]}
    \cup {[tag |-> "object", fields |-> {<<"detail", d>>}] : d \in Details}

NoBody == [tag |-> "none", fields |-> {}]

\* The statuses the modelled server sends a Retry-After header with: those
\* HTTP defines it for (RFC 7231, RFC 6585).
RetryAfterStatuses == {413, 429, 503}

\* retry_after = 0: the response has no Retry-After header.
Responses ==
    {[status |-> s, reason |-> ReasonPhrase(s), retry_after |-> ra, body |-> b] :
        s \in Statuses, ra \in 0..MaxRetryAfter, b \in Bodies}
    \ {[status |-> s, reason |-> ReasonPhrase(s), retry_after |-> ra, body |-> b] :
        s \in Statuses \ RetryAfterStatuses, ra \in 1..MaxRetryAfter, b \in Bodies}

NoResponse == [status |-> 0, reason |-> "", retry_after |-> 0, body |-> NoBody]

HasKey(body, key) == \E p \in body.fields : p[1] = key

Member(body, key) == (CHOOSE p \in body.fields : p[1] = key)[2]

-----------------------------------------------------------------------------
(* Client.__init__                                                         *)

DefaultBaseUrl == "https://api.replicate.com"

\* float(s) for the strings the model's environment holds, in tenths of a
\* second; a string that is no number makes float raise ValueError.
IsFloat(s) == s \in {"0.5", "2", "9"}

Float(s) == CASE s = "0.5" -> 5 [] s = "2" -> 20 [] s = "9" -> 90

\* os.environ.get(name, default)
EnvGet(env, name, default) == IF env[name] = None THEN default ELSE env[name]

ReadRetries_Total6 ==
    [total |-> 6, backoff_factor |-> 2, method_whitelist |-> {"GET"},
     status_forcelist |->
        {429, 500, 502, 503, 504, 520, 521, 522, 523, 524, 526, 527}]

ReadRetries_Total3 ==
    [total |-> 3, backoff_factor |-> 2, method_whitelist |-> {"GET"},
     status_forcelist |->
        {429, 500, 502, 503, 504, 520, 521, 522, 523, 524, 526, 527}]

\* The urllib3 Retry mounted on read_session.
ReadRetries ==
    [total |-> 5, backoff_factor |-> 2, method_whitelist |-> {"GET"},
     status_forcelist |->
        {429, 500, 502, 503, 504, 520, 521, 522, 523, 524, 526, 527}]

WriteRetries_NoForcelist ==
    [total |-> 5, backoff_factor |-> 2, method_whitelist |-> {"POST", "PUT"},
     status_forcelist |-> {}]

\* The urllib3 Retry mounted on write_session.
WriteRetries ==
    [total |-> 5, backoff_factor |-> 2, method_whitelist |-> {"POST", "PUT"},
     status_forcelist |-> {429}]

NoClient == [exists |-> FALSE, api_token |-> None, base_url |-> "", poll_interval |-> 0]

NoCtor == [args |-> [api_token |-> Omitted, base_url |-> Omitted,
                     poll_interval |-> Omitted],
           raised |-> None]

\* What Client(**args) raises, or None. The signature is
\* __init__(self, api_token=None): any other keyword is a TypeError, raised
\* before the body runs; float() of the environment's poll interval can
\* raise ValueError.
CtorRaises(args, env) ==
    IF args.base_url # Omitted \/ args.poll_interval # Omitted THEN "TypeError"
    ELSE IF ~IsFloat(EnvGet(env, "REPLICATE_POLL_INTERVAL", "0.5")) THEN "ValueError"
    ELSE None

NewClient_DefaultBaseUrl(args, env) ==
    [exists |-> TRUE,
     api_token |-> IF args.api_token = Omitted THEN None ELSE args.api_token,
     base_url |-> DefaultBaseUrl,
     poll_interval |-> Float(EnvGet(env, "REPLICATE_POLL_INTERVAL", "0.5"))]

NewClient(args, env) ==
    [exists |-> TRUE,
     api_token |-> IF args.api_token = Omitted THEN None ELSE args.api_token,
     base_url |-> EnvGet(env, "REPLICATE_API_BASE_URL", DefaultBaseUrl),
     poll_interval |-> Float(EnvGet(env, "REPLICATE_POLL_INTERVAL", "0.5"))]

-----------------------------------------------------------------------------
(* Client._api_token and Client._headers                                   *)

ApiToken_EnvFirst(cl, env) ==
    IF env["REPLICATE_API_TOKEN"] # None THEN env["REPLICATE_API_TOKEN"]
    ELSE cl.api_token

\* The token a request resolves: the explicit one unless it is None, then
\* the environment's. None or "" (`not token`) is no token.
ApiToken(cl, env) ==
    IF cl.api_token # None THEN cl.api_token ELSE env["REPLICATE_API_TOKEN"]

NoTokenMessage == <<"No API token provided.">>

-----------------------------------------------------------------------------
(* A logical call                                                          *)

NoOutcome == [kind |-> "none", type |-> None, message |-> <<>>]

Returned(kind) == [kind |-> kind, type |-> None, message |-> <<>>]

Raised(type, message) == [kind |-> "error", type |-> type, message |-> message]

IdleCall ==
    [pc |-> "idle", op |-> None, arg |-> None, method |-> None, url |-> <<>>, token |-> None,
     allow_redirects |-> None, session |-> None, attempts |-> 0, total |-> 0,
     delays |-> <<>>, hops |-> 0, last |-> NoResponse, outcome |-> NoOutcome]

\* The redirect setting the request is sent with. _request sets the default
\* per method and leaves the rest to requests.Session.request, whose own
\* default is True; _request_async drops the keyword and builds the
\* AsyncClient with follow_redirects=True.
AllowRedirects(conv, method) ==
    IF conv = "blocking" THEN (IF method = "HEAD" THEN "False" ELSE "True")
    ELSE "True"

\* The session _request picks for the method.
Session(method) ==
    IF method \in {"POST", "PUT", "DELETE", "PATCH"} THEN "write_session"
    ELSE "read_session"

Retries(session) == IF session = "write_session" THEN WriteRetries ELSE ReadRetries

StartCall_SendsUnauthenticated(conv, op, arg, method, path, cl, env) ==
    [IdleCall EXCEPT !.pc = "sending", !.op = op, !.arg = arg, !.method = method,
                     !.url = <<cl.base_url, path>>, !.token = ApiToken(cl, env),
                     !.allow_redirects = AllowRedirects(conv, method),
                     !.session = IF conv = "blocking" THEN Session(method) ELSE None,
                     !.total = Retries(Session(method)).total]

\* _request / _request_async up to the first send: the headers are built
\* (which resolves the token, or raises) and the URL is base_url + path.
StartCall(conv, op, arg, method, path, cl, env) ==
    LET token == ApiToken(cl, env) IN
    IF token = None \/ token = ""
    THEN [IdleCall EXCEPT !.pc = "done", !.op = op, !.arg = arg, !.method = method,
                          !.outcome = Raised("ReplicateError", NoTokenMessage)]
    ELSE [IdleCall EXCEPT !.pc = "sending", !.op = op, !.arg = arg,
                          !.method = method,
                          !.url = <<cl.base_url, path>>, !.token = token,
                          !.allow_redirects = AllowRedirects(conv, method),
                          !.session = IF conv = "blocking" THEN Session(method) ELSE None,
                          !.total = Retries(Session(method)).total]

-----------------------------------------------------------------------------
(* urllib3's Retry, as HTTPAdapter.send drives it                          *)

RETRY_AFTER_STATUS_CODES == {413, 429, 503}

IsRetry_RetryAfterOnly(retry, total, method, status, has_retry_after) ==
    /\ method \in retry.method_whitelist
    /\ total # 0 /\ has_retry_after /\ status \in RETRY_AFTER_STATUS_CODES

\* Retry.is_retry(method, status_code, has_retry_after), with `total` the
\* retries left.
IsRetry(retry, total, method, status, has_retry_after) ==
    IF method \notin retry.method_whitelist THEN FALSE
    ELSE IF status \in retry.status_forcelist THEN TRUE
    ELSE total # 0 /\ has_retry_after /\ status \in RETRY_AFTER_STATUS_CODES

Pow2(n) == IF n = 0 THEN 1 ELSE IF n = 1 THEN 2 ELSE IF n = 2 THEN 4
           ELSE IF n = 3 THEN 8 ELSE IF n = 4 THEN 16 ELSE 32

\* Retry.get_backoff_time after `errors` consecutive failed attempts.
BackoffTime(retry, errors) ==
    IF errors <= 1 THEN 0
    ELSE LET backoff == retry.backoff_factor * Pow2(errors - 1)
         IN IF backoff > 120 THEN 120 ELSE backoff

\* Retry.sleep(response): the Retry-After header when there is one, the
\* backoff otherwise.
SleepTime(retry, errors, resp) ==
    IF resp.retry_after > 0 THEN resp.retry_after ELSE BackoffTime(retry, errors)

-----------------------------------------------------------------------------
(* Predictions: the job on the server and the Prediction the caller holds  *)

Terminal == {"succeeded", "failed", "canceled"}

\* How many predictions are created in one behaviour, and their ids.
MaxCreates == 2

PredictionIds == <<"p1", "p2", "p3">>

\* The server's record of the prediction most recently created (none yet
\* when created = 0). completed_at is None or the time of completion.
NoJob ==
    [created |-> 0, id |-> None, version |-> None, status |-> None,
     completed_at |-> None, stream |-> None]

Created_Processing(job, version, stream) ==
    [created |-> job.created + 1, id |-> PredictionIds[job.created + 1],
     version |-> version, status |-> "processing", completed_at |-> None,
     stream |-> IF stream THEN "https://streaming.api.replicate.com" ELSE None]

\* POST /v1/predictions: a new job, in `starting`.
Created(job, version, stream) ==
    [created |-> job.created + 1, id |-> PredictionIds[job.created + 1],
     version |-> version, status |-> "starting", completed_at |-> None,
     stream |-> IF stream THEN "https://streaming.api.replicate.com" ELSE None]

\* The job after the server moved it to `status`: completed_at is set on
\* the transition to a terminal status.
Moved(job, status) ==
    [job EXCEPT !.status = status,
                !.completed_at = IF status \in Terminal THEN "t1" ELSE None]

Canceled_NoOp(job) == job

\* POST /v1/predictions/{id}/cancel: canceled, unless the job has ended.
Canceled(job) == IF job.status \in Terminal THEN job ELSE Moved(job, "canceled")

\* The Prediction JSON the server answers with.
Snapshot(job) ==
    [status |-> 200, reason |-> "OK", retry_after |-> 0,
     body |-> [tag |-> "object",
               fields |-> {<<"id", job.id>>, <<"version", job.version>>,
                           <<"status", job.status>>,
                           <<"completed_at", job.completed_at>>,
                           <<"stream", job.stream>>}]]

\* The create response registered by test_stream: status processing together
\* with a completed_at.
StreamFixture ==
    [created |-> 1, id |-> "p1", version |-> "v1", status |-> "processing",
     completed_at |-> "t1", stream |-> "https://streaming.api.replicate.com"]

NoPrediction ==
    [id |-> None, version |-> None, status |-> None, completed_at |-> None,
     urls_stream |-> None]

ParsePrediction_DropsCompletedAt(body) ==
    [id |-> Member(body, "id"), version |-> Member(body, "version"),
     status |-> Member(body, "status"), completed_at |-> None,
     urls_stream |-> Member(body, "stream")]

\* Prediction(**resp.json())
ParsePrediction(body) ==
    [id |-> Member(body, "id"), version |-> Member(body, "version"),
     status |-> Member(body, "status"),
     completed_at |-> Member(body, "completed_at"),
     urls_stream |-> Member(body, "stream")]

\* What parsing a 2xx answer to create, get or cancel gives the caller.
ParsePredictionOutcome(resp) ==
    CASE resp.body.tag = "text" -> Raised("JSONDecodeError", <<"Expecting value">>)
      [] resp.body.tag = "nonobject" ->
            Raised("TypeError", <<"argument after ** must be a mapping">>)
      [] OTHER ->
            IF HasKey(resp.body, "id") THEN Returned("prediction")
            ELSE Raised("ValidationError", <<"field required">>)

PredictionOps == {"predictions.create", "predictions.get", "predictions.cancel"}

-----------------------------------------------------------------------------
(* The Error Normalizer: the tail of _request and of _request_async        *)

HTTPErrorMessage(resp) == <<"HTTP error: ", resp.status, resp.reason>>

\* `raise ReplicateError(f"HTTP error: {resp.status_code, resp.reason}")`.
\* A requests.Response has .reason; an httpx.Response has reason_phrase and
\* no attribute `reason`.
FallbackError(conv, resp) ==
    IF conv = "blocking" THEN Raised("ReplicateError", HTTPErrorMessage(resp))
    ELSE Raised("AttributeError", <<"'Response' object has no attribute 'reason'">>)

NormalizedError_NotFound(conv, resp) ==
    IF resp.status = 404 THEN Raised("NotFoundError", HTTPErrorMessage(resp))
    ELSE IF resp.body.tag = "object" /\ HasKey(resp.body, "detail")
    THEN Raised("ReplicateError", <<Member(resp.body, "detail")>>)
    ELSE FallbackError(conv, resp)

\* What the `if 400 <= resp.status_code < 600` block raises. resp.json()
\* raises JSONDecodeError on text; subscripting a JSON value that is not an
\* object with "detail" raises TypeError, which the except clause does not
\* name; an object without "detail" raises KeyError.
NormalizedError(conv, resp) ==
    CASE resp.body.tag = "text" -> FallbackError(conv, resp)
      [] resp.body.tag = "nonobject" ->
            Raised("TypeError", <<"indices must be integers">>)
      [] OTHER ->
            IF HasKey(resp.body, "detail")
            THEN Raised("ReplicateError", <<Member(resp.body, "detail")>>)
            ELSE FallbackError(conv, resp)

IsFailed(resp) == 400 <= resp.status /\ resp.status < 600

-----------------------------------------------------------------------------
(* What the caller of _request does with the response it gets back         *)

\* Collections.list: obj = resp.json(); obj["results"]; Page(**obj).
ParsePage(resp) ==
    CASE resp.body.tag = "text" -> Raised("JSONDecodeError", <<"Expecting value">>)
      [] resp.body.tag = "nonobject" ->
            Raised("TypeError", <<"indices must be integers">>)
      [] OTHER ->
            IF HasKey(resp.body, "results") THEN Returned("page")
            ELSE Raised("KeyError", <<"results">>)

\* Collections.get: Collection(**resp.json()); slug, name and description
\* are required fields.
ParseCollection(resp) ==
    CASE resp.body.tag = "text" -> Raised("JSONDecodeError", <<"Expecting value">>)
      [] resp.body.tag = "nonobject" ->
            Raised("TypeError", <<"argument after ** must be a mapping">>)
      [] OTHER ->
            IF HasKey(resp.body, "slug") THEN Returned("entity")
            ELSE Raised("ValidationError", <<"field required">>)

AfterRequest(op, resp) ==
    CASE op \in {"collections.list", "predictions.list"} -> ParsePage(resp)
      [] op = "collections.get" -> ParseCollection(resp)
      [] op \in PredictionOps -> ParsePredictionOutcome(resp)
      [] OTHER -> Returned("response")

Finish_ReturnsFailed(conv, call, resp) ==
    [call EXCEPT !.pc = "done", !.outcome = AfterRequest(call.op, resp)]

\* The call ends with `resp` as the response session.request (or
\* client.request) returned.
Finish(conv, call, resp) ==
    [call EXCEPT !.pc = "done",
                 !.outcome = IF IsFailed(resp) THEN NormalizedError(conv, resp)
                             ELSE AfterRequest(call.op, resp)]

-----------------------------------------------------------------------------
(* One HTTP attempt and its answer                                         *)

\* The statuses requests and httpx treat as a redirect when the response
\* has a Location header; the model's redirects all name one Location.
RedirectStatuses == {301, 302, 303, 307, 308}

IsRedirect(resp) == resp.status \in RedirectStatuses

Location == <<"https://api.replicate.com", "/v1/moved">>

\* The method of the request that follows a redirect
\* (SessionRedirectMixin.rebuild_method; httpx's _redirect_method is the same).
RedirectMethod(status, method) ==
    IF status \in {302, 303} /\ method # "HEAD" THEN "GET"
    ELSE IF status = 301 /\ method = "POST" THEN "GET"
    ELSE method

\* Following a redirect: a new request to the Location, with a method rebuilt
\* from the status and the retry budget `total` of a fresh send.
Follow(call, resp, total) ==
    [call EXCEPT !.method = RedirectMethod(resp.status, call.method),
                 !.url = Location, !.total = total, !.hops = @ + 1]

\* The blocking path: HTTPConnectionPool.urlopen under the session's Retry.
\* A response that is_retry() accepts is retried after Retry.sleep, unless
\* increment() finds the budget exhausted: then MaxRetryError is raised,
\* which requests re-raises as RetryError. Session.send then follows a
\* redirect when allow_redirects is set, with a new send through the same
\* session; any other response goes back to _request.
BlockingOnResponse(call, resp) ==
    LET retry == Retries(call.session)
        sent == [call EXCEPT !.attempts = @ + 1, !.last = resp]
    IN IF IsRetry(retry, call.total, call.method, resp.status, resp.retry_after > 0)
       THEN IF call.total - 1 < 0
            THEN [sent EXCEPT !.pc = "done",
                              !.outcome = Raised("RetryError", <<"too many error responses">>)]
            ELSE [sent EXCEPT !.total = @ - 1,
                              !.delays = Append(@, SleepTime(retry, retry.total - (call.total - 1), resp))]
       ELSE IF IsRedirect(resp) /\ call.allow_redirects = "True"
       THEN Follow(sent, resp, retry.total)
       ELSE Finish("blocking", sent, resp)

\* The non-blocking path: AsyncHTTPTransport(retries=5) retries failed
\* connection attempts only; the AsyncClient follows a redirect
\* (follow_redirects=True) and every other response goes back to
\* _request_async.
AsyncOnResponse(call, resp) ==
    LET sent == [call EXCEPT !.attempts = @ + 1, !.last = resp]
    IN IF IsRedirect(resp) /\ call.allow_redirects = "True"
       THEN Follow(sent, resp, call.total)
       ELSE Finish("nonblocking", sent, resp)

OnResponse(conv, call, resp) ==
    IF conv = "blocking" THEN BlockingOnResponse(call, resp)
    ELSE AsyncOnResponse(call, resp)

-----------------------------------------------------------------------------
(* Actions                                                                 *)

Quiet == \A c \in Conventions : calls[c].pc # "sending"

Only(conv, call) == [c \in Conventions |-> IF c = conv THEN call ELSE IdleCall]

RequestPaths == {"/v1/predictions"}

\* client._request(method, path) or client._request_async(method, path).
Request(conv, method, path) ==
    /\ client.exists
    /\ Quiet
    /\ calls' = Only(conv, StartCall(conv, "request", None, method, path, client, environ))
    /\ UNCHANGED <<environ, client, ctor, lifecycle, concurrency>>

ListPath_IgnoresCursor(base, cursor) == base

\* The path list asks for.
ListPath(base, cursor) == IF cursor = Ellipsis THEN base ELSE cursor

\* list(cursor) of a namespace whose collection lives at `base`.
ListCall(op, base, cursor, cl, env) ==
    IF cursor = None
    THEN [IdleCall EXCEPT !.pc = "done", !.op = op, !.arg = cursor,
                          !.outcome = Raised("ValueError", <<"cursor cannot be None">>)]
    ELSE StartCall("blocking", op, cursor, "GET", ListPath(base, cursor), cl, env)

Cursors == {Ellipsis, None, "/v1/collections?cursor=c1", "/v1/predictions?cursor=c2"}

\* client.collections.list(cursor)
CollectionsList(cursor) ==
    /\ client.exists
    /\ Quiet
    /\ calls' = Only("blocking",
            ListCall("collections.list", "/v1/collections", cursor, client, environ))
    /\ UNCHANGED <<environ, client, ctor, lifecycle, concurrency>>

\* client.predictions.list(cursor)
PredictionsList(cursor) ==
    /\ client.exists
    /\ Quiet
    /\ calls' = Only("blocking",
            ListCall("predictions.list", "/v1/predictions", cursor, client, environ))
    /\ UNCHANGED <<environ, client, ctor, lifecycle, concurrency>>

Slugs == {"s"}

\* client.collections.get(slug)
CollectionsGet(slug) ==
    /\ client.exists
    /\ Quiet
    /\ calls' = Only("blocking",
            StartCall("blocking", "collections.get", slug, "GET",
                      <<"/v1/collections/", slug>>, client, environ))
    /\ UNCHANGED <<environ, client, ctor, lifecycle, concurrency>>

\* The server answers the attempt in flight on `conv`.
Deliver(conv, resp) ==
    /\ calls[conv].pc = "sending"
    /\ calls' = [calls EXCEPT ![conv] = OnResponse(conv, calls[conv], resp)]
    /\ UNCHANGED <<environ, client, ctor, lifecycle, concurrency>>

\* The predictions operation in progress: which one, in which form and on
\* which path; for wait, the get calls issued so far (polls) and the statuses
\* they reported (seen); for cancel, the job's status when the request
\* arrived (before); for create, the version argument (requested) and the
\* body's version and stream; and what the operation returned or raised.
IdleTask ==
    [op |-> None, form |-> None, conv |-> None, pc |-> "idle",
     requested |-> [kind |-> "none"], version |-> None, stream |-> FALSE, polls |-> 0, seen |-> <<>>, before |-> None,
     result |-> NoPrediction, error |-> NoOutcome]

InitLifecycle == server = NoJob /\ held = NoPrediction /\ task = IdleTask

\* A _request_async coroutine: where it is, its call, and whether the
\* connection it was given has been closed under it.
IdleFlight == [pc |-> "idle", call |-> IdleCall, severed |-> FALSE]

Flights == {"a", "b"}

\* No coroutine has been started and the pool holds no connection.
InitConcurrency == flights = <<>> /\ pool = {}

-----------------------------------------------------------------------------
(* The transport against every server behaviour, from a client built with  *)
(* the environment's token.                                                *)

InitEnviron ==
    [REPLICATE_API_TOKEN |-> "e1", REPLICATE_API_BASE_URL |-> None,
     REPLICATE_POLL_INTERVAL |-> None]

Init ==
    /\ environ = InitEnviron
    /\ ctor = NoCtor
    /\ client = NewClient(NoCtor.args, InitEnviron)
    /\ calls = [c \in Conventions |-> IdleCall]
    /\ InitLifecycle
    /\ InitConcurrency

Next ==
    \/ \E conv \in Conventions, m \in Methods, p \in RequestPaths : Request(conv, m, p)
    \/ \E cursor \in Cursors : CollectionsList(cursor)
    \/ \E cursor \in Cursors : PredictionsList(cursor)
    \/ \E slug \in Slugs : CollectionsGet(slug)
    \/ \E conv \in Conventions, r \in Responses : Deliver(conv, r)

Spec == Init /\ [][Next]_vars

-----------------------------------------------------------------------------
(* Configuration: the process environment and the constructor              *)

EnvValues(name) ==
    CASE name = "REPLICATE_API_TOKEN" -> {None, "", "e1", "e2"}
      [] name = "REPLICATE_API_BASE_URL" -> {None, "http://localhost"}
      [] OTHER -> {None, "2", "soon"}

EnvNames == {"REPLICATE_API_TOKEN", "REPLICATE_API_BASE_URL", "REPLICATE_POLL_INTERVAL"}

\* os.environ[name] = value, or del os.environ[name] (value None), by the
\* program or by a dotenv loader, between two calls.
SetEnv(name, value) ==
    /\ Quiet
    /\ environ[name] # value
    /\ environ' = [environ EXCEPT ![name] = value]
    /\ calls' = [c \in Conventions |-> IdleCall]
    /\ UNCHANGED <<client, ctor, lifecycle, concurrency>>

CtorArgs ==
    [api_token : {Omitted, "", "t1"}, base_url : {Omitted, "http://arg"},
     poll_interval : {Omitted, "9"}]

\* Client(**args)
Construct(args) ==
    /\ Quiet
    /\ ctor' = [args |-> args, raised |-> CtorRaises(args, environ)]
    /\ client' = IF CtorRaises(args, environ) = None THEN NewClient(args, environ)
                 ELSE client
    /\ calls' = [c \in Conventions |-> IdleCall]
    /\ UNCHANGED <<environ, lifecycle, concurrency>>

\* A server in good health: it answers a list with a page and anything else
\* with a structured 404.
PlainResponses ==
    {[status |-> 200, reason |-> "OK", retry_after |-> 0,
      body |-> [tag |-> "object", fields |-> {<<"results", "r">>}]],
     [status |-> 404, reason |-> "Not Found", retry_after |-> 0,
      body |-> [tag |-> "object", fields |-> {<<"detail", "x">>}]]}

InitConfig ==
    /\ environ = [n \in EnvNames |-> None]
    /\ ctor = NoCtor
    /\ client = NoClient
    /\ calls = [c \in Conventions |-> IdleCall]
    /\ InitLifecycle
    /\ InitConcurrency

NextConfig ==
    \/ \E n \in EnvNames : \E v \in EnvValues(n) : SetEnv(n, v)
    \/ \E args \in CtorArgs : Construct(args)
    \/ \E conv \in Conventions, m \in Methods, p \in RequestPaths : Request(conv, m, p)
    \/ \E cursor \in Cursors : CollectionsList(cursor)
    \/ \E conv \in Conventions, r \in PlainResponses : Deliver(conv, r)

SpecConfig == InitConfig /\ [][NextConfig]_vars

-----------------------------------------------------------------------------
(* The same request issued through both calling conventions against one    *)
(* server behaviour: the k-th attempt of either gets the same answer.      *)

RequestPair(method, path) ==
    /\ client.exists
    /\ Quiet
    /\ calls' = [c \in Conventions |->
                    StartCall(c, "request", None, method, path, client, environ)]
    /\ UNCHANGED <<environ, client, ctor, lifecycle, concurrency>>

DeliverPair(resp) ==
    /\ ~Quiet
    /\ calls' = [c \in Conventions |->
                    IF calls[c].pc = "sending" THEN OnResponse(c, calls[c], resp)
                    ELSE calls[c]]
    /\ UNCHANGED <<environ, client, ctor, lifecycle, concurrency>>

\* The answers of the server the pair runs against.
PairResponses == {r \in Responses : r.status \in {200, 404, 429, 500, 503}}

NextPair ==
    \/ \E m \in Methods, p \in RequestPaths : RequestPair(m, p)
    \/ \E r \in PairResponses : DeliverPair(r)

SpecPair == Init /\ [][NextPair]_vars

-----------------------------------------------------------------------------
(* The Job Lifecycle Engine: create, get, cancel and wait                  *)

\* The version argument of create: an identifier string or a Version entity.
VersionArgs ==
    {[kind |-> "str", value |-> "v1"], [kind |-> "str", value |-> ""],
     [kind |-> "entity", entity |-> [id |-> "v1"]], [kind |-> "none"]}

\* The identifier create puts in the body.
VersionId(version) ==
    IF version.kind = "str" THEN version.value ELSE version.entity.id

PredictionPath(id) == <<"/v1/predictions/", id>>

CancelPath(id) == <<"/v1/predictions/", id, "/cancel">>

\* How many get calls one wait issues at most.
MaxPolls == 4

WaitDone_OnlySucceeded(prediction) == prediction.status = "succeeded"

\* wait's loop condition: it stops once the held Prediction is terminal.
WaitDone(prediction) == prediction.status \in Terminal

\* The operation `t` starts with `call`, or ends at once when the call did.
Begin(conv, t, call) ==
    /\ calls' = Only(conv, call)
    /\ task' = IF call.pc = "done" THEN [t EXCEPT !.pc = "done", !.error = call.outcome]
               ELSE [t EXCEPT !.pc = "running"]

\* client.predictions.create(version, input, stream) and its async form.
Create(conv, version, stream) ==
    /\ client.exists
    /\ Quiet
    /\ server.created < MaxCreates
    /\ LET t == [IdleTask EXCEPT !.op = "create", !.form = "namespace", !.conv = conv,
                                 !.requested = version]
       IN IF version.kind = "none" \/ VersionId(version) = ""
          THEN /\ calls' = [c \in Conventions |-> IdleCall]
               /\ task' = [t EXCEPT !.pc = "done",
                                    !.error = Raised("ValidationError", <<"version">>)]
          ELSE Begin(conv,
                     [t EXCEPT !.version = VersionId(version), !.stream = stream],
                     StartCall(conv, "predictions.create", None, "POST",
                               "/v1/predictions", client, environ))
    /\ UNCHANGED <<environ, client, ctor, server, held, concurrency>>

\* client.predictions.get(id) with the id of the held Prediction.
Get(conv) ==
    /\ client.exists
    /\ Quiet
    /\ held # NoPrediction
    /\ Begin(conv, [IdleTask EXCEPT !.op = "get", !.form = "namespace", !.conv = conv],
             StartCall(conv, "predictions.get", held.id, "GET",
                       PredictionPath(held.id), client, environ))
    /\ UNCHANGED <<environ, client, ctor, server, held, concurrency>>

\* client.predictions.cancel(id) (namespace form) or prediction.cancel()
\* (instance form).
Cancel(conv, form) ==
    /\ client.exists
    /\ Quiet
    /\ held # NoPrediction
    /\ Begin(conv, [IdleTask EXCEPT !.op = "cancel", !.form = form, !.conv = conv],
             StartCall(conv, "predictions.cancel", held.id, "POST",
                       CancelPath(held.id), client, environ))
    /\ UNCHANGED <<environ, client, ctor, server, held, concurrency>>

\* One poll of wait: a get of the held Prediction.
Poll(conv, id) ==
    StartCall(conv, "predictions.get", id, "GET", PredictionPath(id), client, environ)

\* prediction.wait(): nothing to do when the held Prediction is terminal,
\* and the first poll otherwise.
Wait(conv) ==
    /\ client.exists
    /\ Quiet
    /\ held # NoPrediction
    /\ LET t == [IdleTask EXCEPT !.op = "wait", !.form = "instance", !.conv = conv]
       IN IF WaitDone(held)
          THEN /\ calls' = [c \in Conventions |-> IdleCall]
               /\ task' = [t EXCEPT !.pc = "done", !.result = held]
          ELSE Begin(conv, [t EXCEPT !.polls = 1], Poll(conv, held.id))
    /\ UNCHANGED <<environ, client, ctor, server, held, concurrency>>

\* What the operation in progress does once its call has been answered and
\* stands at `call`: nothing while the transport is retrying; the error is
\* raised to the caller; a Prediction is parsed and returned (create, get,
\* namespace cancel) or written into the held one (instance cancel, wait),
\* and wait polls again unless the Prediction is terminal.
Settle(conv, call, before) ==
    LET answered == [calls EXCEPT ![conv] = call]
        prediction == ParsePrediction(call.last.body)
        ended == [task EXCEPT !.pc = "done", !.before = before]
    IN IF call.pc = "sending"
       THEN calls' = answered /\ UNCHANGED <<task, held>>
       ELSE IF call.outcome.kind = "error"
       THEN /\ calls' = answered
            /\ task' = [ended EXCEPT !.error = call.outcome]
            /\ UNCHANGED held
       ELSE IF task.op = "wait"
       THEN /\ held' = prediction
            /\ IF WaitDone(prediction)
               THEN /\ calls' = answered
                    /\ task' = [ended EXCEPT !.seen = Append(@, prediction.status),
                                             !.result = prediction]
               ELSE LET next == Poll(conv, prediction.id)
                        polled == [task EXCEPT !.seen = Append(@, prediction.status),
                                               !.polls = @ + 1]
                    IN /\ calls' = [calls EXCEPT ![conv] = next]
                       /\ task' = IF next.pc = "done"
                                  THEN [polled EXCEPT !.pc = "done", !.error = next.outcome]
                                  ELSE polled
       ELSE /\ calls' = answered
            /\ task' = [ended EXCEPT !.result = prediction]
            /\ held' = IF task.op = "create" \/ task.form = "instance" THEN prediction
                       ELSE held

\* The job after the server has carried out the request in flight.
Served(job, t) ==
    CASE t.op = "create" -> Created(job, t.version, t.stream)
      [] t.op = "cancel" -> Canceled(job)
      [] OTHER -> job

\* The API server carries out the request in flight and answers with the
\* job's snapshot.
ServeOk(conv) ==
    /\ calls[conv].pc = "sending"
    /\ task.pc = "running" /\ task.conv = conv
    /\ LET job == Served(server, task)
       IN /\ (task.op = "wait" /\ job.status \notin Terminal) => task.polls < MaxPolls
          /\ server' = job
          /\ Settle(conv, OnResponse(conv, calls[conv], Snapshot(job)), server.status)
    /\ UNCHANGED <<environ, client, ctor, concurrency>>

\* The failures the API answers a prediction request with.
LifeFailures ==
    {[status |-> 404, reason |-> "Not Found", retry_after |-> 0,
      body |-> [tag |-> "object", fields |-> {<<"detail", "x">>}]],
     [status |-> 429, reason |-> "Too Many Requests", retry_after |-> 0,
      body |-> [tag |-> "text", fields |-> {}]],
     [status |-> 500, reason |-> "Internal Server Error", retry_after |-> 0,
      body |-> [tag |-> "text", fields |-> {}]]}

\* The server fails the request in flight; the job is as it was.
ServeFailure(conv, resp) ==
    /\ calls[conv].pc = "sending"
    /\ task.pc = "running" /\ task.conv = conv
    /\ Settle(conv, OnResponse(conv, calls[conv], resp), task.before)
    /\ UNCHANGED <<environ, client, ctor, server, concurrency>>

\* The job moves on by itself: starting to processing, and either of them
\* to succeeded or failed.
Advance(status) ==
    /\ server.created > 0
    /\ server.status \notin Terminal
    /\ status = "processing" => server.status = "starting"
    /\ server' = Moved(server, status)
    /\ UNCHANGED <<environ, client, ctor, calls, held, task, concurrency>>

Forms == {"namespace", "instance"}

NextLife ==
    \/ \E conv \in Conventions, v \in VersionArgs, stream \in BOOLEAN : Create(conv, v, stream)
    \/ \E conv \in Conventions : Get(conv)
    \/ \E conv \in Conventions, form \in Forms : Cancel(conv, form)
    \/ \E conv \in Conventions : Wait(conv)
    \/ \E conv \in Conventions : ServeOk(conv)
    \/ \E conv \in Conventions, r \in LifeFailures : ServeFailure(conv, r)
    \/ \E status \in {"processing", "succeeded", "failed"} : Advance(status)

SpecLife == Init /\ [][NextLife]_vars

\* The mocked server of test_stream: its one registered answer to the
\* create of version "v1" with stream set.
ServeFixture(conv) ==
    /\ calls[conv].pc = "sending"
    /\ task.pc = "running" /\ task.conv = conv
    /\ task.op = "create" /\ task.version = "v1" /\ task.stream
    /\ server.created = 0
    /\ server' = StreamFixture
    /\ Settle(conv, OnResponse(conv, calls[conv], Snapshot(StreamFixture)), server.status)
    /\ UNCHANGED <<environ, client, ctor, concurrency>>

NextMock ==
    \/ NextLife
    \/ \E conv \in Conventions : ServeFixture(conv)

SpecMock == Init /\ [][NextMock]_vars

-----------------------------------------------------------------------------
(* Concurrent non-blocking requests of one client                          *)

\* A coroutine enters _request_async: the headers are built, an AsyncClient
\* is opened on the client's one httpx_transport and the request is sent on
\* a connection of its pool; the coroutine is suspended until the response
\* arrives.
Launch(f, method, path) ==
    /\ client.exists
    /\ f \in DOMAIN flights => flights[f].pc # "awaiting"
    /\ LET call == StartCall("nonblocking", "request", None, method, path, client, environ)
           others == [g \in DOMAIN flights \ {f} |-> flights[g]]
       IN IF call.pc = "done"
          THEN /\ flights' = others @@ (f :> [IdleFlight EXCEPT !.pc = "done", !.call = call])
               /\ pool' = pool
          ELSE /\ flights' = others @@ (f :> [IdleFlight EXCEPT !.pc = "awaiting", !.call = call])
               /\ pool' = pool \cup {f}
    /\ UNCHANGED <<environ, client, ctor, calls, lifecycle>>

\* Leaving `async with httpx.AsyncClient(transport=self.httpx_transport)`:
\* AsyncClient.aclose closes the transport it was given, which closes every
\* connection of the pool, those of the other coroutines included.
Close(f, fs) ==
    [g \in DOMAIN fs |->
        IF g = f THEN fs[g]
        ELSE IF g \in pool /\ fs[g].pc = "awaiting" THEN [fs[g] EXCEPT !.severed = TRUE]
        ELSE fs[g]]

\* The response of `f` arrives: _request_async leaves the `async with`
\* block and normalizes the response.
Respond(f, resp) ==
    /\ f \in DOMAIN flights
    /\ flights[f].pc = "awaiting"
    /\ ~flights[f].severed
    /\ LET call == AsyncOnResponse(flights[f].call, resp)
       IN flights' = Close(f, [flights EXCEPT ![f] = [@ EXCEPT !.pc = "done", !.call = call]])
    /\ pool' = {}
    /\ UNCHANGED <<environ, client, ctor, calls, lifecycle>>

\* The httpx exceptions a read on a closed connection is raised as.
TransportErrors == {"ReadError", "RemoteProtocolError"}

\* The connection of `f` was closed under it: its read fails, and the
\* exception leaves _request_async through the `async with` block.
Break(f, error) ==
    /\ f \in DOMAIN flights
    /\ flights[f].pc = "awaiting"
    /\ flights[f].severed
    /\ flights' = Close(f, [flights EXCEPT ![f] =
            [@ EXCEPT !.pc = "done",
                      !.call = [@ EXCEPT !.pc = "done", !.attempts = @ + 1,
                                         !.outcome = Raised(error, <<"connection closed">>)]]])
    /\ pool' = {}
    /\ UNCHANGED <<environ, client, ctor, calls, lifecycle>>

NextConc ==
    \/ \E f \in Flights, m \in Methods, p \in RequestPaths : Launch(f, m, p)
    \/ \E f \in Flights, r \in PlainResponses : Respond(f, r)
    \/ \E f \in Flights, e \in TransportErrors : Break(f, e)

SpecConc == Init /\ [][NextConc]_vars

-----------------------------------------------------------------------------
(* Redirects: a server that answers with redirects as well                 *)

\* How many redirects in a row the server sends for one request.
MaxHops == 2

RedirectResponses ==
    {[status |-> 200, reason |-> "OK", retry_after |-> 0,
      body |-> [tag |-> "object", fields |-> {}]],
     [status |-> 302, reason |-> "Found", retry_after |-> 0, body |-> NoBody],
     [status |-> 307, reason |-> "Temporary Redirect", retry_after |-> 0, body |-> NoBody],
     [status |-> 404, reason |-> "Not Found", retry_after |-> 0,
      body |-> [tag |-> "object", fields |-> {<<"detail", "x">>}]],
     [status |-> 429, reason |-> "Too Many Requests", retry_after |-> 0,
      body |-> [tag |-> "text", fields |-> {}]]}

\* The server answers the attempt in flight on `conv`, with a redirect while
\* it has sent fewer than MaxHops of them for this request.
DeliverRedirect(conv, resp) ==
    /\ IsRedirect(resp) => calls[conv].hops < MaxHops
    /\ Deliver(conv, resp)

NextRedirect ==
    \/ \E conv \in Conventions, m \in Methods, p \in RequestPaths : Request(conv, m, p)
    \/ \E conv \in Conventions, r \in RedirectResponses : DeliverRedirect(conv, r)

SpecRedirect == Init /\ [][NextRedirect]_vars

-----------------------------------------------------------------------------
(* Properties                                                              *)

Blocking == calls["blocking"]

Answered(call) == call.attempts >= 1

MutatingMethods == {"POST", "PUT", "PATCH", "DELETE"}

ServerErrors == {500, 502, 503, 504} \cup (520..527)

\* The waits urllib3 computes from backoff_factor=2: none before the first
\* retry, then 4 s doubling.
BackoffShape == <<0, 4, 8, 16, 32>>

\* A blocking call of one of `methods` whose latest answer has `status`:
\* while fewer than six attempts were sent it is sent again, and the sixth
\* such answer ends it with RetryError.
RetriedToExhaustion(call, methods, status) ==
    (call.method \in methods /\ Answered(call) /\ call.last.status = status) =>
        /\ call.attempts <= 6
        /\ call.attempts <= 5 => call.pc = "sending" /\ Len(call.delays) = call.attempts
        /\ call.attempts = 6 =>
              /\ call.pc = "done"
              /\ call.outcome = Raised("RetryError", <<"too many error responses">>)

\* C1 as stated: on the blocking path a 500 answer to GET, HEAD or OPTIONS
\* is always followed by another attempt while fewer than 5 retries were made.
C1_Original ==
    (Blocking.method \in {"GET", "HEAD", "OPTIONS"} /\ Answered(Blocking)
        /\ Blocking.last.status = 500 /\ Blocking.attempts <= 5)
    => Blocking.pc = "sending"

\* C1 (amended): on the blocking path only GET is retried on 500: up to 5
\* retries (6 attempts), then RetryError; the wait before the k-th retry is
\* the answer's Retry-After when it has one and else 0, 4, 8, 16, 32 s (each
\* wait after the second retry double the one before); HEAD and OPTIONS are
\* sent once.
C1_GetRetriedOn500 ==
    /\ RetriedToExhaustion(Blocking, {"GET"}, 500)
    /\ (Blocking.method = "GET" /\ Blocking.pc = "sending" /\ Answered(Blocking)) =>
          /\ Blocking.attempts \in DOMAIN BackoffShape
          /\ Blocking.delays[Blocking.attempts] =
                IF Blocking.last.retry_after > 0 THEN Blocking.last.retry_after
                ELSE BackoffShape[Blocking.attempts]
          /\ (Blocking.attempts >= 3 /\ Blocking.last.retry_after = 0) =>
                Blocking.delays[Blocking.attempts]
                    = 2 * BackoffShape[Blocking.attempts - 1]
    /\ Blocking.method \in {"HEAD", "OPTIONS"} =>
          Blocking.attempts <= 1 /\ Blocking.delays = <<>>

C1_Witness ==
    /\ Blocking.method = "GET"
    /\ Blocking.last.status = 500
    /\ Blocking.attempts = 6
    /\ Blocking.pc = "done"
    /\ Blocking.delays = <<0, 4, 8, 16, 32>>

\* C2: a 5xx answer to a POST, PUT, PATCH or DELETE ends the request, on
\* either path: no further attempt follows it.
C2_MutatingNeverRetriedOn5xx ==
    \A c \in Conventions :
        (calls[c].method \in MutatingMethods /\ Answered(calls[c])
            /\ calls[c].last.status \in ServerErrors)
        => calls[c].pc = "done"

\* C3 as stated: on the blocking path a 429 answer to any mutating method is
\* followed by another attempt while fewer than 5 retries were made.
C3_Original ==
    (Blocking.method \in MutatingMethods /\ Answered(Blocking)
        /\ Blocking.last.status = 429 /\ Blocking.attempts <= 5)
    => Blocking.pc = "sending"

\* C3 (amended): on the blocking path POST and PUT are retried on 429, up to
\* 5 retries (6 attempts), then RetryError; PATCH and DELETE fail on the
\* first 429 with the normalized error.
C3_PostPutRetriedOn429 ==
    /\ RetriedToExhaustion(Blocking, {"POST", "PUT"}, 429)
    /\ (Blocking.method \in {"PATCH", "DELETE"} /\ Answered(Blocking)) =>
          /\ Blocking.pc = "done"
          /\ Blocking.attempts = 1
          /\ Blocking.last.status = 429 => Blocking.outcome.kind = "error"

C3_Witness ==
    /\ Blocking.method = "POST"
    /\ Blocking.last.status = 429
    /\ Blocking.attempts = 3
    /\ Blocking.pc = "sending"

\* C4: when the same request has ended on both paths against the same
\* answers, both made the same number of attempts and ended alike: the same
\* response returned or the same error type and message raised.
C4_SameSemantics ==
    (\A c \in Conventions : calls[c].pc = "done") =>
        /\ calls["blocking"].attempts = calls["nonblocking"].attempts
        /\ calls["blocking"].outcome = calls["nonblocking"].outcome
        /\ calls["blocking"].last = calls["nonblocking"].last

\* The request ended in the Error Normalizer: its final answer is a failed
\* response that the retry policy handed back.
Normalized(call) ==
    /\ call.pc = "done"
    /\ Answered(call)
    /\ IsFailed(call.last)
    /\ call.outcome.type # "RetryError"

\* C5: the normalized error's message is the body's `detail` when the body
\* is a JSON object that has one, and else the message built from the status
\* code and the reason phrase.
C5_NormalizedMessage ==
    \A c \in Conventions :
        Normalized(calls[c]) =>
            /\ calls[c].outcome.kind = "error"
            /\ calls[c].outcome.message =
                  IF calls[c].last.body.tag = "object" /\ HasKey(calls[c].last.body, "detail")
                  THEN <<Member(calls[c].last.body, "detail")>>
                  ELSE HTTPErrorMessage(calls[c].last)

\* C6: a request whose final answer has a status in [400,600) raises the
\* library's error type, whatever the body and the path; any other final
\* answer is returned.
C6_OneErrorType ==
    \A c \in Conventions :
        (calls[c].op = "request" /\ calls[c].pc = "done" /\ Answered(calls[c])) =>
            IF IsFailed(calls[c].last)
            THEN calls[c].outcome.kind = "error" /\ calls[c].outcome.type = "ReplicateError"
            ELSE calls[c].outcome = Returned("response")

\* A step in which a call sends its first attempt.
Sends(c) == calls[c].pc # "sending" /\ calls'[c].pc = "sending"

\* C7: the Authorization token of a request is resolved when the request is
\* made: the explicit token if the client was given one, and else the token
\* the environment holds at that moment.
C7_TokenResolvedAtCall ==
    [][\A c \in Conventions :
          Sends(c) =>
              /\ calls'[c].attempts = 0
              /\ calls'[c].token =
                    IF client.api_token # None THEN client.api_token
                    ELSE environ["REPLICATE_API_TOKEN"]]_vars

C7_Witness ==
    \E c \in Conventions :
        /\ calls[c].pc = "sending"
        /\ client.api_token = None
        /\ calls[c].token = "e2"

\* C8 as stated: a base URL, poll interval or token given to the constructor
\* is the value the client uses (the environment's poll interval being a
\* number).
C8_Original ==
    ctor.raised # "ValueError" =>
        /\ ctor.args.api_token # Omitted => client.api_token = ctor.args.api_token
        /\ ctor.args.base_url # Omitted => client.base_url = ctor.args.base_url
        /\ ctor.args.poll_interval # Omitted =>
              client.poll_interval = Float(ctor.args.poll_interval)

\* A step that is a call of the constructor.
Constructs == ctor' # ctor \/ client' # client

\* C8 (amended): the token can come from the environment and the api_token
\* argument overrides it (C7); the base URL and the poll interval come from
\* the environment only, read once by the constructor, which takes no
\* argument for them: passing one raises TypeError and builds no client.
C8_ConfigSources ==
    [][/\ Constructs =>
            /\ (ctor'.raised = "TypeError") <=>
                  (ctor'.args.base_url # Omitted \/ ctor'.args.poll_interval # Omitted)
            /\ ctor'.raised # None => client' = client
            /\ ctor'.raised = None =>
                  /\ client'.exists
                  /\ client'.api_token =
                        IF ctor'.args.api_token = Omitted THEN None
                        ELSE ctor'.args.api_token
                  /\ client'.base_url =
                        IF environ["REPLICATE_API_BASE_URL"] = None THEN DefaultBaseUrl
                        ELSE environ["REPLICATE_API_BASE_URL"]
                  /\ client'.poll_interval =
                        IF environ["REPLICATE_POLL_INTERVAL"] = None THEN 5 ELSE 20
       /\ \A c \in Conventions :
            (Sends(c) /\ client.api_token # None) =>
                /\ calls'[c].token = client.api_token
                /\ calls'[c].url[1] = client.base_url]_vars

C8_Witness ==
    /\ ctor.raised = None
    /\ ctor.args.api_token = "t1"
    /\ environ["REPLICATE_API_TOKEN"] = "e1"
    /\ environ["REPLICATE_API_BASE_URL"] = "http://localhost"
    /\ client.poll_interval = 20
    /\ \E c \in Conventions :
          /\ calls[c].pc = "sending"
          /\ calls[c].token = "t1"
          /\ calls[c].url[1] = "http://localhost"

ListOps == {"collections.list", "predictions.list"}

BasePath(op) == IF op = "collections.list" THEN "/v1/collections" ELSE "/v1/predictions"

\* C9: list without a cursor requests the namespace's base path, list with a
\* cursor string requests that string as the path, and list(None) raises
\* ValueError without sending anything.
C9_ListCursor ==
    Blocking.op \in ListOps =>
        /\ Blocking.arg = Ellipsis =>
              Blocking.url = <<client.base_url, BasePath(Blocking.op)>>
        /\ Blocking.arg \notin {Ellipsis, None} =>
              Blocking.url = <<client.base_url, Blocking.arg>>
        /\ Blocking.arg # None => Blocking.pc = "sending" \/ Answered(Blocking)
        /\ Blocking.arg = None =>
              /\ Blocking.pc = "done"
              /\ Blocking.attempts = 0
              /\ Blocking.url = <<>>
              /\ Blocking.outcome = Raised("ValueError", <<"cursor cannot be None">>)

C9_Witness ==
    /\ Blocking.op = "collections.list"
    /\ Blocking.arg = "/v1/collections?cursor=c1"
    /\ Blocking.outcome = Returned("page")

\* C10 as stated: a get answered 404 fails with NotFoundError.
C10_Original ==
    (Blocking.op = "collections.get" /\ Blocking.pc = "done"
        /\ Blocking.last.status = 404)
    => Blocking.outcome.kind = "error" /\ Blocking.outcome.type = "NotFoundError"

\* C10 (amended): a get answered 404 fails at once, the 404 being its last
\* attempt, with ReplicateError, the one error type every 4xx/5xx is raised
\* as (TypeError when the body is JSON but not an object); there is no
\* NotFoundError.
C10_Get404 ==
    (Blocking.op = "collections.get" /\ Answered(Blocking)
        /\ Blocking.last.status = 404)
    => /\ Blocking.pc = "done"
       /\ Blocking.outcome.kind = "error"
       /\ Blocking.outcome.type =
             IF Blocking.last.body.tag = "nonobject" THEN "TypeError"
             ELSE "ReplicateError"

C10_Witness ==
    /\ Blocking.op = "collections.get"
    /\ Blocking.last.status = 404
    /\ Blocking.outcome = Raised("ReplicateError", <<"x">>)

\* C17 as stated: no request is sent more than 5 times in all.
C17_Original == \A c \in Conventions : calls[c].attempts <= 5

\* C17 (amended): a request is sent at most 6 times in all, the first send
\* and the 5 retries that total=5 allows; only a blocking GET, POST or PUT
\* can be sent more than once, and a sixth answer always ends the request.
C17_AttemptBudget ==
    /\ \A c \in Conventions : calls[c].attempts <= 6
    /\ calls["nonblocking"].attempts <= 1
    /\ Blocking.method \notin {"GET", "POST", "PUT"} => Blocking.attempts <= 1
    /\ Blocking.attempts = 6 => Blocking.pc = "done"
    /\ Blocking.pc = "sending" => Blocking.attempts + Blocking.total = 5

C17_Witness ==
    /\ Blocking.method = "PUT"
    /\ Blocking.attempts = 6
    /\ Blocking.last.status = 429
    /\ Blocking.outcome.type = "RetryError"

\* No token resolves: none was given to the client and the environment
\* holds none, or an empty one.
NoTokenResolves ==
    client.api_token = None /\ environ["REPLICATE_API_TOKEN"] \in {None, ""}

\* A step in which a request is made on `c`: _request or _request_async is
\* entered (a list whose cursor is None fails before it gets there).
Makes(c) ==
    /\ calls[c].pc # "sending"
    /\ calls'[c].pc \in {"sending", "done"}
    /\ calls'[c] # calls[c]
    /\ ~(calls'[c].op \in ListOps /\ calls'[c].arg = None)

\* C18: a request made while no token resolves ends at once with the
\* missing-token error, on either path and for every method, and nothing was
\* sent for it; no attempt is ever sent without a token.
C18_NoTokenNothingSent ==
    /\ [](\A c \in Conventions :
            (calls[c].pc = "sending" \/ calls[c].attempts > 0) =>
                calls[c].token \notin {None, ""})
    /\ [][\A c \in Conventions :
            (Makes(c) /\ NoTokenResolves) =>
                /\ calls'[c].pc = "done"
                /\ calls'[c].attempts = 0
                /\ calls'[c].url = <<>>
                /\ calls'[c].outcome = Raised("ReplicateError", NoTokenMessage)]_vars

C18_Witness ==
    /\ NoTokenResolves
    /\ environ["REPLICATE_API_TOKEN"] = ""
    /\ calls["nonblocking"].method = "DELETE"
    /\ calls["nonblocking"].pc = "done"
    /\ calls["nonblocking"].attempts = 0
    /\ calls["nonblocking"].outcome = Raised("ReplicateError", NoTokenMessage)

\* The statuses the policy of the call's session retries.
RetrySet(call) == Retries(Session(call.method)).status_forcelist

\* C20 as stated: a request that ended in an error on a status of its
\* policy's retry set has used every attempt the policy allows.
C20_Original ==
    \A c \in Conventions :
        (calls[c].pc = "done" /\ Answered(calls[c])
            /\ calls[c].outcome.kind = "error"
            /\ calls[c].last.status \in RetrySet(calls[c]))
        => calls[c].attempts = 6

\* C20 (amended): on the blocking path a GET (read policy) or a POST or PUT
\* (write policy) answered with a status of its retry set is sent again
\* while retries are left, so a success within the 6 attempts is what the
\* caller gets, and the error (RetryError) is raised only by the sixth such
\* answer. HEAD, OPTIONS, PATCH and DELETE, and every non-blocking request,
\* end on their first answer.
C20_ErrorOnlyAfterExhaustion ==
    /\ (Blocking.method \in Retries(Session(Blocking.method)).method_whitelist
            /\ Answered(Blocking)) =>
          /\ Blocking.last.status \in RetrySet(Blocking) =>
                /\ Blocking.attempts <= 5 => Blocking.pc = "sending"
                /\ Blocking.pc = "done" =>
                      /\ Blocking.attempts = 6
                      /\ Len(Blocking.delays) = 5
                      /\ Blocking.outcome = Raised("RetryError", <<"too many error responses">>)
          /\ (Blocking.op = "request" /\ ~IsFailed(Blocking.last)) =>
                Blocking.outcome = Returned("response")
    /\ \A c \in Conventions :
          (Answered(calls[c])
              /\ (c = "nonblocking"
                    \/ calls[c].method \notin Retries(Session(calls[c].method)).method_whitelist))
          => calls[c].pc = "done" /\ calls[c].attempts = 1

C20_Witness ==
    /\ Blocking.op = "request"
    /\ Blocking.method = "GET"
    /\ Blocking.attempts = 3
    /\ Len(Blocking.delays) = 2
    /\ Blocking.outcome = Returned("response")

\* The attempt of `call` was answered with a redirect and the client went
\* on to the Location.
Followed(call) ==
    /\ call.pc = "sending"
    /\ call.hops >= 1
    /\ call.url = Location
    /\ call.method = RedirectMethod(call.last.status, call.method)

\* C19: a GET, HEAD or OPTIONS is sent with redirects enabled, whichever
\* path sends it, and when it is answered with a redirect the client goes on
\* to the Location.
C19_RedirectsFollowed ==
    \A c \in Conventions :
        (calls[c].method \in {"GET", "HEAD", "OPTIONS"} /\ calls[c].hops = 0
            /\ (calls[c].pc = "sending" \/ Answered(calls[c]))) =>
            /\ calls[c].allow_redirects = "True"
            /\ (Answered(calls[c]) /\ IsRedirect(calls[c].last)) => Followed(calls[c])

\* The status the most recent poll of wait reported.
LastSeen == task.seen[Len(task.seen)]

\* C11: wait polls get until a poll reports a terminal status and then
\* stops: no get follows the first terminal report, each poll's snapshot is
\* written into the held Prediction, and a wait whose polls report starting,
\* processing, succeeded has issued exactly 3 get calls and returns with the
\* held Prediction succeeded and its completed_at set.
C11_WaitPollsUntilTerminal ==
    task.op = "wait" =>
        /\ \A i \in 1..Len(task.seen) :
              i < Len(task.seen) => task.seen[i] \notin Terminal
        /\ task.pc = "running" =>
              /\ task.polls = Len(task.seen) + 1
              /\ \A i \in 1..Len(task.seen) : task.seen[i] \notin Terminal
              /\ calls[task.conv].pc = "sending"
              /\ calls[task.conv].op = "predictions.get"
        /\ task.seen # <<>> => held.status = LastSeen
        /\ (task.pc = "done" /\ task.error = NoOutcome /\ task.seen # <<>>) =>
              /\ task.polls = Len(task.seen)
              /\ LastSeen \in Terminal
              /\ held.completed_at # None
              /\ task.result = held
        /\ task.seen = <<"starting", "processing", "succeeded">> =>
              /\ task.pc = "done"
              /\ task.error = NoOutcome
              /\ task.polls = 3
              /\ held.status = "succeeded"
              /\ held.completed_at # None

C11_Witness ==
    /\ task.op = "wait"
    /\ task.pc = "done"
    /\ task.seen = <<"starting", "processing", "succeeded">>
    /\ task.polls = 3
    /\ held.status = "succeeded"

\* The operation `op` has returned a Prediction to its caller.
Gave(op) == task.op = op /\ task.pc = "done" /\ task.error = NoOutcome

C13_CancelStarting ==
    (Gave("cancel") /\ task.before = "starting") =>
        /\ task.result.status = "canceled"
        /\ task.result.id = calls[task.conv].arg
        /\ task.result.id = held.id
        /\ task.form = "instance" => held = task.result
        /\ task.form = "namespace" => held.status # "canceled"

C13_Witness ==
    /\ Gave("cancel")
    /\ task.before = "starting"
    /\ task.form = "instance"
    /\ task.conv = "nonblocking"
    /\ held.status = "canceled"
    /\ held.id = "p1"

\* The Predictions the caller has been handed: the one it holds and the one
\* the last operation returned.
Handed == {held, task.result} \ {NoPrediction}

\* C14: every Prediction handed to the caller is terminal exactly when its
\* completed_at is set.
C14_TerminalIffCompleted ==
    \A p \in Handed : p.status \in Terminal <=> p.completed_at # None

\* The error a poll of wait ends in when its final answer is the failed
\* response `resp`: RetryError when the blocking GET ran out of retries on a
\* retried status, the normalized error otherwise.
PollError(conv, resp) ==
    IF conv = "blocking" /\ resp.status \in ReadRetries.status_forcelist
    THEN Raised("RetryError", <<"too many error responses">>)
    ELSE NormalizedError(conv, resp)

\* C15: when a poll of wait fails, with an error that is not retried or
\* with its retries exhausted, wait raises that error at that poll: the
\* failing get is the last one issued and the held Prediction keeps the
\* snapshot of the poll before.
C15_WaitRaisesPollError ==
    task.op = "wait" =>
        LET poll == calls[task.conv]
        IN /\ (task.polls > 0 /\ poll.pc = "done" /\ IsFailed(poll.last)) =>
                 /\ task.pc = "done"
                 /\ task.error.kind = "error"
                 /\ task.error = poll.outcome
                 /\ task.error = PollError(task.conv, poll.last)
                 /\ poll.outcome.type = "RetryError" => poll.attempts = 6
                 /\ task.polls = Len(task.seen) + 1
                 /\ task.result = NoPrediction
                 /\ task.seen # <<>> => held.status = LastSeen
           /\ task.error # NoOutcome =>
                 /\ task.pc = "done"
                 /\ poll.pc = "done"
                 /\ IsFailed(poll.last)

C15_Witness ==
    /\ task.op = "wait"
    /\ task.conv = "blocking"
    /\ task.pc = "done"
    /\ task.error = Raised("RetryError", <<"too many error responses">>)
    /\ task.polls = 2
    /\ task.seen = <<"processing">>
    /\ calls["blocking"].attempts = 6
    /\ held.status = "processing"

\* C16: of two requests in progress on the same client, the end of one
\* never closes the connection the other is waiting on, and the other ends
\* with what the server answered it.
C16_NoInterference ==
    \A f \in DOMAIN flights :
        /\ ~flights[f].severed
        /\ (flights[f].pc = "done" /\ flights[f].call.attempts > 0) =>
              flights[f].call.outcome.type \notin TransportErrors

\* C21: a failed response whose status is not in the retry set of the
\* policy chosen for the method ends the request: no attempt follows it (a
\* first such response leaves exactly one attempt) and an error is raised
\* for it; and the blocking path picks the write session for POST, PUT,
\* DELETE and PATCH and the read session for every other method.
C21_NonRetryableFailsAtOnce ==
    \A c \in Conventions :
        /\ (Answered(calls[c]) /\ IsFailed(calls[c].last)
                /\ calls[c].last.status \notin RetrySet(calls[c])) =>
              /\ calls[c].pc = "done"
              /\ calls[c].attempts = Len(calls[c].delays) + 1
              /\ calls[c].outcome.kind = "error"
        /\ (c = "blocking" /\ calls[c].pc = "sending") =>
              calls[c].session =
                  IF calls[c].method \in {"POST", "PUT", "DELETE", "PATCH"}
                  THEN "write_session" ELSE "read_session"

====
